---- MODULE Spec2Model ----
(***************************************************************************)
(* Model of bump::NotificationCenter (src/src/bump/NotificationCenter.cpp, *)
(* src/include/bump/NotificationCenter.h): the registry of Observer        *)
(* objects, its two vectors, and the dispatch of notifications.            *)
(*                                                                         *)
(* Observer objects live on the heap; the two vectors hold their           *)
(* addresses.  An address is the index of the object in `heap'.            *)
(***************************************************************************)
EXTENDS Integers, Sequences, FiniteSets, TLC

\* Bound: how many Observer objects are ever constructed in one behaviour.
MaxObservers == 3

\* The void* identities of the registering objects, and the notification names.
Owners == {"o1", "o2"}
Names == {"N", "M"}

\* Types: a base type name and a level of pointer indirection.
TypeA == [base |-> "A", ptr |-> 0]
TypeB == [base |-> "B", ptr |-> 0]
NoType == [base |-> "", ptr |-> 0]
PointerTo(t) == [t EXCEPT !.ptr = @ + 1]

\* The T2 template arguments the callers instantiate ObjectObserver with, and
\* the runtime types of the objects they post.
DeclaredTypes == {TypeA}
PayloadTypes == {TypeA, PointerTo(TypeA), TypeB}

\* The threads that call the NotificationCenter.
Threads == {1, 2}

NoObject == NoType
NoRet == -1
NULL == "NULL"

VARIABLES
    heap,             \* every Observer ever constructed, by address; a deleted
                      \* one leaves FreedObserver at its address
    freed,            \* the addresses `delete' was called on
    keyObservers,     \* NotificationCenter::_keyObservers (addresses)
    objectObservers,  \* NotificationCenter::_objectObservers (addresses)
    alive,            \* FALSE once ~NotificationCenter has run
    call,             \* the last completed call: arguments, outcome, callbacks run
    trip,             \* history: how far the latest key observer is through
                      \* addObserver, postNotification, removeObserver, postNotification
    frames,           \* per thread, the stack of the calls in progress, the
                      \* innermost last (used when calls run step by step)
    capacity,         \* capacity() of the two vectors
    hazard,           \* the undefined behaviour met so far
    raced,            \* history: a thread has run while another was inside a call
    logical,          \* history: the observers added by a completed addObserver
                      \* and not removed by a completed removeObserver
    isEnabled,        \* Log::_isEnabled
    logLevel,         \* Log::_logLevel
    logCall,          \* the last completed call of the Log
    logSet            \* history: the values the Log was constructed with, then
                      \* those given to the latest setIsLogEnabled / setLogLevel

\* The variables of the step by step execution.
scanVars == <<frames, capacity, hazard, raced, logical>>

\* The variables of the Log.
logVars == <<isEnabled, logLevel, logCall, logSet>>

vars == <<heap, freed, keyObservers, objectObservers, alive, call, trip, scanVars,
          logVars>>

-----------------------------------------------------------------------------
(* Observer and its subclasses *)

\* KeyObserver<T>::KeyObserver(observer, functionPointer, notificationName)
KeyObserver(observer, notificationName) ==
    [observer |-> observer,
     notificationName |-> notificationName,
     observerType |-> "KEY_OBSERVER",
     functionPointerWithObject |-> FALSE,
     functionPointerWithPointer |-> FALSE,
     T2 |-> NoType]

\* Mutant of ObjectObserver: the (T2*) and (const T2*) constructors set
\* _functionPointerWithObject as well.
ObjectObserverBothSet(observer, byPointer, T2, notificationName) ==
    [observer |-> observer,
     notificationName |-> notificationName,
     observerType |-> "OBJECT_OBSERVER",
     functionPointerWithObject |-> TRUE,
     functionPointerWithPointer |-> byPointer,
     T2 |-> T2]

\* ObjectObserver<T1,T2>::ObjectObserver: the (T2) and (const T2&) constructors
\* set _functionPointerWithObject, the (T2*) and (const T2*) ones set
\* _functionPointerWithPointer; the other one is NULL.
ObjectObserver(observer, byPointer, T2, notificationName) ==
    [observer |-> observer,
     notificationName |-> notificationName,
     observerType |-> "OBJECT_OBSERVER",
     functionPointerWithObject |-> ~byPointer,
     functionPointerWithPointer |-> byPointer,
     T2 |-> T2]

\* Observer::containsObserver(void* observer)
ObserverContainsObserver(abs_observer, observer) ==
    observer = abs_observer.observer

\* Mutant of AnyCastOk: the held type is not checked.
AnyCastUnchecked(object, T) == TRUE

\* boost::any_cast<T>(object) succeeds iff the held type is exactly T.
AnyCastOk(object, T) == object = T

\* Mutant of CastTarget: the by-pointer branch casts to T2 as well.
CastTargetAlwaysT2(abs_observer) == abs_observer.T2

\* The type ObjectObserver::notify casts the object to.
CastTarget(abs_observer) ==
    IF abs_observer.functionPointerWithObject
    THEN abs_observer.T2
    ELSE PointerTo(abs_observer.T2)

\* Observer::notify() / KeyObserver::notify(): the callbacks run, as <<address, object>>.
\* The base class implementation does nothing.
Notify(addr) ==
    IF heap[addr].observerType = "KEY_OBSERVER"
    THEN <<[addr |-> addr, object |-> NoObject]>>
    ELSE <<>>

\* Observer::notify(object) / ObjectObserver::notify(object):
\* [ran |-> callbacks run, thrown |-> TRUE iff NotificationError is thrown].
NotifyWithObject(addr, object) ==
    IF heap[addr].observerType = "OBJECT_OBSERVER"
    THEN IF AnyCastOk(object, CastTarget(heap[addr]))
         THEN [ran |-> <<[addr |-> addr, object |-> object]>>, thrown |-> FALSE]
         ELSE [ran |-> <<>>, thrown |-> TRUE]
    ELSE [ran |-> <<>>, thrown |-> FALSE]

\* What is left at an address after `delete abs_observer'.
FreedObserver ==
    [observer |-> "freed",
     notificationName |-> "freed",
     observerType |-> "freed",
     functionPointerWithObject |-> FALSE,
     functionPointerWithPointer |-> FALSE,
     T2 |-> NoType]

\* delete on every address of the set
Delete(h, addrs) ==
    [a \in DOMAIN h |-> IF a \in addrs THEN FreedObserver ELSE h[a]]

-----------------------------------------------------------------------------
(* The record of a call *)

NoCall ==
    [op |-> "none", observer |-> NULL, name |-> "", object |-> NoObject,
     ret |-> NoRet, count |-> 0, found |-> FALSE, thrown |-> "none",
     total |-> 0, key_string |-> "", errName |-> "",
     notified |-> <<>>, added |-> 0,
     preHeap |-> <<>>, preKey |-> <<>>, preObject |-> <<>>]

ThisCall(op) ==
    [NoCall EXCEPT !.op = op, !.preHeap = heap,
                   !.preKey = keyObservers, !.preObject = objectObservers]

\* The round trip of the key observer registered last: stage 1 after its
\* addObserver, 2 after a postNotification of its name, 3 after the
\* removeObserver of its owner, 4 after the postNotification of its name that
\* follows.  c is the call that has just completed.
NoTrip == [observer |-> NULL, name |-> "", stage |-> 0]

TripAfter(c, isKey) ==
    IF c.op = "addObserver"
    THEN IF isKey
         THEN [observer |-> c.observer, name |-> c.name, stage |-> 1]
         ELSE IF trip.stage = 4 THEN NoTrip ELSE trip
    ELSE IF trip.stage = 1 /\ c.op = "postNotification" /\ c.name = trip.name
    THEN [trip EXCEPT !.stage = 2]
    ELSE IF trip.stage = 1 /\ c.op = "removeObserver"
    THEN NoTrip
    ELSE IF trip.stage = 2 /\ c.op = "removeObserver" /\ c.observer = trip.observer
    THEN [trip EXCEPT !.stage = 3]
    ELSE IF trip.stage = 3 /\ c.op = "postNotification" /\ c.name = trip.name
    THEN [trip EXCEPT !.stage = 4]
    ELSE IF trip.stage = 4
    THEN NoTrip
    ELSE trip

-----------------------------------------------------------------------------
(* NotificationCenter *)

InitRegistry ==
    /\ heap = <<>>
    /\ freed = {}
    /\ keyObservers = <<>>
    /\ objectObservers = <<>>
    /\ alive = TRUE
    /\ call = NoCall
    /\ trip = NoTrip
    /\ frames = [t \in Threads |-> <<>>]
    /\ capacity = [key |-> 0, object |-> 0]
    /\ hazard = {}
    /\ raced = FALSE
    /\ logical = {}

\* The levels of Log::LogLevel, numbered in the order Log::Log() lists them.
ALWAYS_LVL == 0
WARNING_LVL == 2
DEBUG_LVL == 4
LogLevels == ALWAYS_LVL..DEBUG_LVL

NoLogCall == [op |-> "none", enabled |-> FALSE, level |-> ALWAYS_LVL, ret |-> FALSE]

\* Log::Log(): enabled at WARNING_LVL, unless BUMP_LOG_ENABLED disables the
\* log or, the log left enabled, BUMP_LOG_LEVEL names a level.
LogConstructed(disabledByEnvironment, levelOfEnvironment) ==
    /\ isEnabled = ~disabledByEnvironment
    /\ logLevel = IF disabledByEnvironment THEN WARNING_LVL ELSE levelOfEnvironment
    /\ logCall = NoLogCall
    /\ logSet = [enabled |-> isEnabled, level |-> logLevel,
                 enabledSet |-> FALSE, levelSet |-> FALSE]

\* The NotificationCenter and a Log constructed with no environment variable.
Init == InitRegistry /\ LogConstructed(FALSE, WARNING_LVL)

\* Mutant of addObserver: an observer whose owner, name and type are already
\* registered is not stored again.
addObserverUnique(obs) ==
    /\ alive
    /\ Len(heap) < MaxObservers
    /\ LET addr == Len(heap) + 1
           vec == IF obs.observerType = "KEY_OBSERVER"
                  THEN keyObservers ELSE objectObservers
           known == \E i \in DOMAIN vec :
                       /\ heap[vec[i]].observer = obs.observer
                       /\ heap[vec[i]].notificationName = obs.notificationName
       IN
       /\ heap' = Append(heap, obs)
       /\ IF known
          THEN UNCHANGED <<keyObservers, objectObservers>>
          ELSE IF obs.observerType = "KEY_OBSERVER"
               THEN /\ keyObservers' = Append(keyObservers, addr)
                    /\ UNCHANGED objectObservers
               ELSE /\ objectObservers' = Append(objectObservers, addr)
                    /\ UNCHANGED keyObservers
       /\ call' = [ThisCall("addObserver") EXCEPT
                     !.observer = obs.observer, !.name = obs.notificationName,
                     !.added = addr]
    /\ UNCHANGED <<freed, alive>>

\* Mutant of addObserver: the type of the observer is not looked at, every
\* observer goes to the key observers.
addObserverAllKey(obs) ==
    /\ alive
    /\ Len(heap) < MaxObservers
    /\ LET addr == Len(heap) + 1 IN
       /\ heap' = Append(heap, obs)
       /\ keyObservers' = Append(keyObservers, addr)
       /\ UNCHANGED objectObservers
       /\ call' = [ThisCall("addObserver") EXCEPT
                     !.observer = obs.observer, !.name = obs.notificationName,
                     !.added = addr]
    /\ UNCHANGED <<freed, alive>>

\* Mutant of addObserver: the observer is inserted at the front of its vector.
addObserverFront(obs) ==
    /\ alive
    /\ Len(heap) < MaxObservers
    /\ LET addr == Len(heap) + 1 IN
       /\ heap' = Append(heap, obs)
       /\ IF obs.observerType = "KEY_OBSERVER"
          THEN /\ keyObservers' = <<addr>> \o keyObservers
               /\ UNCHANGED objectObservers
          ELSE /\ objectObservers' = <<addr>> \o objectObservers
               /\ UNCHANGED keyObservers
       /\ call' = [ThisCall("addObserver") EXCEPT
                     !.observer = obs.observer, !.name = obs.notificationName,
                     !.added = addr]
    /\ UNCHANGED <<freed, alive>>

\* NotificationCenter::addObserver(Observer*), on a newly constructed observer.
addObserver(obs) ==
    /\ alive
    /\ Len(heap) < MaxObservers
    /\ LET addr == Len(heap) + 1 IN
       /\ heap' = Append(heap, obs)
       /\ IF obs.observerType = "KEY_OBSERVER"
          THEN /\ keyObservers' = Append(keyObservers, addr)
               /\ UNCHANGED objectObservers
          ELSE /\ objectObservers' = Append(objectObservers, addr)
               /\ UNCHANGED keyObservers
       /\ call' = [ThisCall("addObserver") EXCEPT
                     !.observer = obs.observer, !.name = obs.notificationName,
                     !.added = addr]
    /\ UNCHANGED <<freed, alive>>


\* NotificationCenter::containsObserver: one BOOST_FOREACH over a vector,
\* returning true at the first observer that matches.
RECURSIVE ContainsLoop(_, _, _)
ContainsLoop(vec, i, observer) ==
    IF i > Len(vec)
    THEN FALSE
    ELSE IF ObserverContainsObserver(heap[vec[i]], observer)
         THEN TRUE
         ELSE ContainsLoop(vec, i + 1, observer)

\* Mutant of ContainsObserverResult: the object observers are not searched.
ContainsObserverResultKeyOnly(observer) ==
    ContainsLoop(keyObservers, 1, observer)

\* The value NotificationCenter::containsObserver(observer) returns.
ContainsObserverResult(observer) ==
    IF ContainsLoop(keyObservers, 1, observer)
    THEN TRUE
    ELSE IF ContainsLoop(objectObservers, 1, observer)
         THEN TRUE
         ELSE FALSE

\* NotificationCenter::containsObserver(void* observer)
containsObserver(observer) ==
    /\ alive
    /\ call' = [ThisCall("containsObserver") EXCEPT
                  !.observer = observer,
                  !.found = ContainsObserverResult(observer)]
    /\ UNCHANGED <<heap, freed, keyObservers, objectObservers, alive>>

\* Mutant of PostLoop: the observers are notified from the last to the first.
RECURSIVE PostLoopReversed(_, _, _, _)
PostLoopReversed(vec, i, notificationName, acc) ==
    IF i > Len(vec)
    THEN acc
    ELSE IF heap[vec[i]].notificationName = notificationName
         THEN PostLoopReversed(vec, i + 1, notificationName,
                               [count |-> acc.count + 1,
                                notified |-> Notify(vec[i]) \o acc.notified])
         ELSE PostLoopReversed(vec, i + 1, notificationName, acc)

\* Mutant of PostLoop: the name of the observer is not compared.
RECURSIVE PostLoopAnyName(_, _, _, _)
PostLoopAnyName(vec, i, notificationName, acc) ==
    IF i > Len(vec)
    THEN acc
    ELSE PostLoopAnyName(vec, i + 1, notificationName,
                         [count |-> acc.count + 1,
                          notified |-> acc.notified \o Notify(vec[i])])

\* The BOOST_FOREACH of postNotification: acc is [count, notified].
RECURSIVE PostLoop(_, _, _, _)
PostLoop(vec, i, notificationName, acc) ==
    IF i > Len(vec)
    THEN acc
    ELSE IF heap[vec[i]].notificationName = notificationName
         THEN PostLoop(vec, i + 1, notificationName,
                       [count |-> acc.count + 1,
                        notified |-> acc.notified \o Notify(vec[i])])
         ELSE PostLoop(vec, i + 1, notificationName, acc)

\* NotificationCenter::postNotification(notificationName)
postNotification(notificationName) ==
    /\ alive
    /\ LET r == PostLoop(keyObservers, 1, notificationName,
                         [count |-> 0, notified |-> <<>>]) IN
       call' = [ThisCall("postNotification") EXCEPT
                  !.name = notificationName,
                  !.count = r.count, !.ret = r.count, !.notified = r.notified]
    /\ UNCHANGED <<heap, freed, keyObservers, objectObservers, alive>>

\* Mutant of PostObjectLoop: the exception of one observer is remembered and
\* the scan goes on.
RECURSIVE PostObjectLoopContinues(_, _, _, _, _)
PostObjectLoopContinues(vec, i, notificationName, object, acc) ==
    IF i > Len(vec)
    THEN acc
    ELSE IF heap[vec[i]].notificationName = notificationName
         THEN LET n == NotifyWithObject(vec[i], object) IN
              IF n.thrown
              THEN PostObjectLoopContinues(vec, i + 1, notificationName, object,
                       [acc EXCEPT !.thrown = TRUE,
                                   !.errName = heap[vec[i]].notificationName])
              ELSE PostObjectLoopContinues(vec, i + 1, notificationName, object,
                       [acc EXCEPT !.count = @ + 1, !.notified = @ \o n.ran])
         ELSE PostObjectLoopContinues(vec, i + 1, notificationName, object, acc)

\* Mutant of PostObjectLoop: notification_count is incremented before notify.
RECURSIVE PostObjectLoopCountsFirst(_, _, _, _, _)
PostObjectLoopCountsFirst(vec, i, notificationName, object, acc) ==
    IF i > Len(vec)
    THEN acc
    ELSE IF heap[vec[i]].notificationName = notificationName
         THEN LET n == NotifyWithObject(vec[i], object) IN
              IF n.thrown
              THEN [acc EXCEPT !.count = @ + 1,
                               !.thrown = TRUE,
                               !.errName = heap[vec[i]].notificationName]
              ELSE PostObjectLoopCountsFirst(vec, i + 1, notificationName, object,
                       [acc EXCEPT !.count = @ + 1, !.notified = @ \o n.ran])
         ELSE PostObjectLoopCountsFirst(vec, i + 1, notificationName, object, acc)

\* The BOOST_FOREACH of postNotificationWithObject: acc is
\* [count, notified, thrown, errName]; an exception leaves the loop at once,
\* before the increment of notification_count.
RECURSIVE PostObjectLoop(_, _, _, _, _)
PostObjectLoop(vec, i, notificationName, object, acc) ==
    IF i > Len(vec)
    THEN acc
    ELSE IF heap[vec[i]].notificationName = notificationName
         THEN LET n == NotifyWithObject(vec[i], object) IN
              IF n.thrown
              THEN [acc EXCEPT !.thrown = TRUE,
                               !.errName = heap[vec[i]].notificationName]
              ELSE PostObjectLoop(vec, i + 1, notificationName, object,
                                  [acc EXCEPT !.count = @ + 1,
                                              !.notified = @ \o n.ran])
         ELSE PostObjectLoop(vec, i + 1, notificationName, object, acc)

\* Mutant of postNotificationWithObject: when notify(object) throws, the
\* object observers bound to the name are dropped from the vector.
postNotificationWithObjectDropsOnThrow(notificationName, object) ==
    /\ alive
    /\ LET r == PostObjectLoop(objectObservers, 1, notificationName, object,
                               [count |-> 0, notified |-> <<>>,
                                thrown |-> FALSE, errName |-> ""])
           bound(a) == heap[a].notificationName # notificationName IN
       /\ call' = [ThisCall("postNotificationWithObject") EXCEPT
                     !.name = notificationName, !.object = object,
                     !.count = r.count,
                     !.ret = IF r.thrown THEN NoRet ELSE r.count,
                     !.thrown = IF r.thrown THEN "NotificationError" ELSE "none",
                     !.errName = r.errName,
                     !.notified = r.notified]
       /\ objectObservers' = IF r.thrown
                             THEN SelectSeq(objectObservers, bound)
                             ELSE objectObservers
    /\ UNCHANGED <<heap, freed, keyObservers, alive>>

\* NotificationCenter::postNotificationWithObject(notificationName, object)
postNotificationWithObject(notificationName, object) ==
    /\ alive
    /\ LET r == PostObjectLoop(objectObservers, 1, notificationName, object,
                               [count |-> 0, notified |-> <<>>,
                                thrown |-> FALSE, errName |-> ""]) IN
       call' = [ThisCall("postNotificationWithObject") EXCEPT
                  !.name = notificationName, !.object = object,
                  !.count = r.count,
                  !.ret = IF r.thrown THEN NoRet ELSE r.count,
                  !.thrown = IF r.thrown THEN "NotificationError" ELSE "none",
                  !.errName = r.errName,
                  !.notified = r.notified]
    /\ UNCHANGED <<heap, freed, keyObservers, objectObservers, alive>>

\* Mutant of RemoveLoop: only the first observer of the owner is deleted.
RECURSIVE RemoveLoopFirstOnly(_, _, _, _)
RemoveLoopFirstOnly(vec, i, observer, acc) ==
    IF i > Len(vec)
    THEN acc
    ELSE IF ObserverContainsObserver(heap[vec[i]], observer) /\ acc.deleted = {}
         THEN RemoveLoopFirstOnly(vec, i + 1, observer,
                                  [acc EXCEPT !.deleted = @ \cup {vec[i]}])
         ELSE RemoveLoopFirstOnly(vec, i + 1, observer,
                                  [acc EXCEPT !.keep = Append(@, vec[i])])

\* Mutant of RemoveLoop: the observers kept are stored in reverse order.
RECURSIVE RemoveLoopReversed(_, _, _, _)
RemoveLoopReversed(vec, i, observer, acc) ==
    IF i > Len(vec)
    THEN acc
    ELSE IF ObserverContainsObserver(heap[vec[i]], observer)
         THEN RemoveLoopReversed(vec, i + 1, observer,
                                 [acc EXCEPT !.deleted = @ \cup {vec[i]}])
         ELSE RemoveLoopReversed(vec, i + 1, observer,
                                 [acc EXCEPT !.keep = <<vec[i]>> \o @])

\* One BOOST_FOREACH of removeObserver: acc is [keep, deleted].
RECURSIVE RemoveLoop(_, _, _, _)
RemoveLoop(vec, i, observer, acc) ==
    IF i > Len(vec)
    THEN acc
    ELSE IF ObserverContainsObserver(heap[vec[i]], observer)
         THEN RemoveLoop(vec, i + 1, observer,
                         [acc EXCEPT !.deleted = @ \cup {vec[i]}])
         ELSE RemoveLoop(vec, i + 1, observer,
                         [acc EXCEPT !.keep = Append(@, vec[i])])

\* Mutant of removeObserver: the object observers are left alone.
removeObserverKeyOnly(observer) ==
    /\ alive
    /\ LET k == RemoveLoop(keyObservers, 1, observer,
                           [keep |-> <<>>, deleted |-> {}]) IN
       /\ keyObservers' = k.keep
       /\ freed' = freed \cup k.deleted
       /\ heap' = Delete(heap, k.deleted)
    /\ call' = [ThisCall("removeObserver") EXCEPT !.observer = observer]
    /\ UNCHANGED <<objectObservers, alive>>

\* NotificationCenter::removeObserver(void* observer)
removeObserver(observer) ==
    /\ alive
    /\ LET k == RemoveLoop(keyObservers, 1, observer,
                           [keep |-> <<>>, deleted |-> {}])
           o == RemoveLoop(objectObservers, 1, observer,
                           [keep |-> <<>>, deleted |-> {}]) IN
       /\ keyObservers' = k.keep
       /\ objectObservers' = o.keep
       /\ freed' = freed \cup k.deleted \cup o.deleted
       /\ heap' = Delete(heap, k.deleted \cup o.deleted)
    /\ call' = [ThisCall("removeObserver") EXCEPT !.observer = observer]
    /\ UNCHANGED alive

\* String("\"%1\"").arg(observer->notificationName())
QuotedKey(addr) == "\"" \o heap[addr].notificationName \o "\""

\* Mutant of CollectKeys: each key is put in front of the keys collected so far.
RECURSIVE CollectKeysPrepending(_, _, _)
CollectKeysPrepending(vec, i, keys) ==
    IF i > Len(vec)
    THEN keys
    ELSE CollectKeysPrepending(vec, i + 1, <<QuotedKey(vec[i])>> \o keys)

\* The two BOOST_FOREACH loops of the destructor: the keys, in order.
RECURSIVE CollectKeys(_, _, _)
CollectKeys(vec, i, keys) ==
    IF i > Len(vec)
    THEN keys
    ELSE CollectKeys(vec, i + 1, Append(keys, QuotedKey(vec[i])))

\* String::join(keys, ", ")
RECURSIVE Join(_, _)
Join(keys, sep) ==
    IF keys = <<>>
    THEN ""
    ELSE IF Len(keys) = 1
         THEN keys[1]
         ELSE keys[1] \o sep \o Join(Tail(keys), sep)

\* Mutant of Destructor: only the key observers are looked at.
DestructorKeyOnly ==
    /\ alive
    /\ alive' = FALSE
    /\ IF keyObservers # <<>>
       THEN LET keys == CollectKeys(keyObservers, 1, <<>>) IN
            call' = [ThisCall("~NotificationCenter") EXCEPT
                       !.thrown = "NotificationError",
                       !.total = Len(keyObservers),
                       !.key_string = Join(keys, ", ")]
       ELSE call' = ThisCall("~NotificationCenter")
    /\ keyObservers' = <<>>
    /\ objectObservers' = <<>>
    /\ UNCHANGED <<heap, freed>>

\* NotificationCenter::~NotificationCenter(): throws when an observer is left;
\* the vectors are destroyed, the observers they point to are not deleted.
Destructor ==
    /\ alive
    /\ alive' = FALSE
    /\ IF keyObservers # <<>> \/ objectObservers # <<>>
       THEN LET keys == CollectKeys(objectObservers, 1,
                                    CollectKeys(keyObservers, 1, <<>>)) IN
            call' = [ThisCall("~NotificationCenter") EXCEPT
                       !.thrown = "NotificationError",
                       !.total = Len(keyObservers) + Len(objectObservers),
                       !.key_string = Join(keys, ", ")]
       ELSE call' = ThisCall("~NotificationCenter")
    /\ keyObservers' = <<>>
    /\ objectObservers' = <<>>
    /\ UNCHANGED <<heap, freed>>

-----------------------------------------------------------------------------
(* The callers *)

AddKeyObserver ==
    \E o \in Owners, n \in Names : addObserver(KeyObserver(o, n))

AddObjectObserver ==
    \E o \in Owners, n \in Names, p \in BOOLEAN, t \in DeclaredTypes :
        addObserver(ObjectObserver(o, p, t, n))

ContainsObserver ==
    \E o \in Owners : containsObserver(o)

PostNotification ==
    \E n \in Names : postNotification(n)

PostNotificationWithObject ==
    \E n \in Names, t \in PayloadTypes : postNotificationWithObject(n, t)

RemoveObserver ==
    \E o \in Owners : removeObserver(o)

\* The calls, in any order, until the destructor has run.
Next ==
    \/ AddKeyObserver /\ UNCHANGED <<trip, scanVars, logVars>>
    \/ AddObjectObserver /\ UNCHANGED <<trip, scanVars, logVars>>
    \/ ContainsObserver /\ UNCHANGED <<trip, scanVars, logVars>>
    \/ PostNotification /\ UNCHANGED <<trip, scanVars, logVars>>
    \/ PostNotificationWithObject /\ UNCHANGED <<trip, scanVars, logVars>>
    \/ RemoveObserver /\ UNCHANGED <<trip, scanVars, logVars>>
    \/ Destructor /\ UNCHANGED <<trip, scanVars, logVars>>

Spec == Init /\ [][Next]_vars

\* The same calls, with the history variable following each of them.
Recorded(isKey) == trip' = TripAfter(call', isKey)

NextTrip ==
    \/ AddKeyObserver /\ Recorded(TRUE) /\ UNCHANGED <<scanVars, logVars>>
    \/ AddObjectObserver /\ Recorded(FALSE) /\ UNCHANGED <<scanVars, logVars>>
    \/ ContainsObserver /\ Recorded(FALSE) /\ UNCHANGED <<scanVars, logVars>>
    \/ PostNotification /\ Recorded(FALSE) /\ UNCHANGED <<scanVars, logVars>>
    \/ PostNotificationWithObject /\ Recorded(FALSE) /\ UNCHANGED <<scanVars, logVars>>
    \/ RemoveObserver /\ Recorded(FALSE) /\ UNCHANGED <<scanVars, logVars>>
    \/ Destructor /\ Recorded(FALSE) /\ UNCHANGED <<scanVars, logVars>>

SpecTrip == Init /\ [][NextTrip]_vars

-----------------------------------------------------------------------------
(* The calls step by step.  A call in progress is a frame: its arguments,   *)
(* its locals and where it stands.  BOOST_FOREACH takes begin() and end()   *)
(* of the vector once, when the loop starts.  A push_back that reallocates  *)
(* and the assignment of a vector invalidate the iterators of every loop    *)
(* running over that vector; what such a loop reads next is undefined, and  *)
(* so is whatever is read from a deleted Observer.                          *)

\* Bounds of the step by step specifications: the observers ever constructed,
\* and the depth of calls made from callbacks.
MaxScanObservers == 2
MaxDepth == 2

\* The notification names used by the two threads.
RaceNames == {"N"}

NoFrame ==
    [op |-> "none", pc |-> "none", v |-> "key", i |-> 0, end |-> 0,
     valid |-> TRUE, name |-> "", observer |-> NULL, object |-> NoObject,
     cur |-> 0, count |-> 0, keep |-> <<>>, keys |-> <<>>, target |-> {}]

Vec(v) == IF v = "key" THEN keyObservers ELSE objectObservers

Depth(t) == Len(frames[t])
Top(t) == frames[t][Depth(t)]
Pushed(fs, t, f) == [fs EXCEPT ![t] = Append(@, f)]
Popped(fs, t) == [fs EXCEPT ![t] = SubSeq(@, 1, Len(@) - 1)]
Replaced(fs, t, f) == [fs EXCEPT ![t] = [@ EXCEPT ![Len(@)] = f]]

\* The iterators of every loop in progress over vector v become invalid.
Invalidated(fs, v) ==
    [t \in Threads |->
        IF fs[t] = <<>>
        THEN <<>>
        ELSE [k \in 1..Len(fs[t]) |->
                 IF fs[t][k].pc \in {"scan", "notify", "callback"} /\ fs[t][k].v = v
                 THEN [fs[t][k] EXCEPT !.valid = FALSE]
                 ELSE fs[t][k]]]

\* A thread calls from outside, or from a callback it is running.
CanCall(t, limit) ==
    /\ alive
    /\ Depth(t) < limit
    /\ IF Depth(t) = 0 THEN TRUE ELSE Top(t).pc = "callback"

Track(t) == raced' = (raced \/ \E u \in Threads \ {t} : frames[u] # <<>>)

\* BOOST_FOREACH(Observer* abs_observer, vector): begin() and end() are taken.
StartScan(f, v) ==
    [f EXCEPT !.pc = "scan", !.v = v, !.i = 1, !.end = Len(Vec(v)), !.valid = TRUE]

\* The loop's iterator can be dereferenced.
Dereferenceable(f) == f.valid /\ f.i <= Len(Vec(f.v))

\* A loop that reads any slot ever written, whatever its iterator.
ElemsAnySlot(f) == DOMAIN heap

\* *it: the element, or anything at all through an invalid iterator.
Elems(f) == IF Dereferenceable(f) THEN {Vec(f.v)[f.i]} ELSE DOMAIN heap

IteratorHazard(f) == IF Dereferenceable(f) THEN {} ELSE {"invalidIterator"}

\* vector::push_back grows a full vector to twice its capacity.
GrownCapacity(cap) == IF cap = 0 THEN 1 ELSE cap + cap

\* addObserver(observer) is entered with a newly constructed observer.
CallAdd(t, limit, obs) ==
    /\ CanCall(t, limit)
    /\ Len(heap) < MaxScanObservers
    /\ heap' = Append(heap, obs)
    /\ frames' = Pushed(frames, t,
                   [NoFrame EXCEPT !.op = "addObserver", !.pc = "read",
                                   !.cur = Len(heap) + 1,
                                   !.v = IF obs.observerType = "KEY_OBSERVER"
                                         THEN "key" ELSE "object"])
    /\ Track(t)
    /\ UNCHANGED logVars
    /\ UNCHANGED <<freed, keyObservers, objectObservers, alive, call, trip,
                   capacity, hazard, logical>>

\* push_back: the end of the vector is read, then the pointer is stored there
\* and the end moved behind it; a full vector is reallocated first.
StepAdd(t) ==
    /\ Depth(t) > 0
    /\ Top(t).op = "addObserver"
    /\ LET f == Top(t) IN
       \/ /\ f.pc = "read"
          /\ frames' = Replaced(frames, t,
                         [f EXCEPT !.pc = "write", !.end = Len(Vec(f.v))])
          /\ UNCHANGED <<keyObservers, objectObservers, capacity, hazard, logical>>
       \/ /\ f.pc = "write"
          /\ LET old == Vec(f.v)
                 gap == f.end - Len(old)
                 realloc == f.end >= capacity[f.v] IN
             /\ \E g \in [1..gap -> DOMAIN heap] :
                   LET new == IF gap <= 0
                              THEN Append(SubSeq(old, 1, f.end), f.cur)
                              ELSE Append(old \o [k \in 1..gap |-> g[k]], f.cur) IN
                   IF f.v = "key"
                   THEN keyObservers' = new /\ UNCHANGED objectObservers
                   ELSE objectObservers' = new /\ UNCHANGED keyObservers
             /\ capacity' = IF realloc
                            THEN [capacity EXCEPT ![f.v] = GrownCapacity(@)]
                            ELSE capacity
             /\ frames' = IF realloc
                          THEN Invalidated(Popped(frames, t), f.v)
                          ELSE Popped(frames, t)
             /\ hazard' = hazard \cup (IF gap > 0 THEN {"staleSlot"} ELSE {})
             /\ logical' = logical \cup {f.cur}
    /\ Track(t)
    /\ UNCHANGED logVars
    /\ UNCHANGED <<heap, freed, alive, call, trip>>

\* postNotification(notificationName) is entered.
CallPost(t, limit, notificationName) ==
    /\ CanCall(t, limit)
    /\ frames' = Pushed(frames, t,
                   StartScan([NoFrame EXCEPT !.op = "postNotification",
                                             !.name = notificationName], "key"))
    /\ Track(t)
    /\ UNCHANGED logVars
    /\ UNCHANGED <<heap, freed, keyObservers, objectObservers, alive, call, trip,
                   capacity, hazard, logical>>

\* One step of the loop of postNotification: the test of the loop and of the
\* name, or the call of notify().
StepPost(t) ==
    /\ Depth(t) > 0
    /\ Top(t).op = "postNotification"
    /\ LET f == Top(t)
           next == [f EXCEPT !.pc = "scan", !.i = @ + 1, !.cur = 0] IN
       \/ /\ f.pc = "scan"
          /\ f.i > f.end
          /\ frames' = Popped(frames, t)
          /\ UNCHANGED hazard
       \/ /\ f.pc = "scan"
          /\ f.i <= f.end
          /\ \E a \in Elems(f) :
                IF heap[a] = FreedObserver
                THEN /\ hazard' = hazard \cup IteratorHazard(f) \cup {"readFreed"}
                     /\ \E same \in BOOLEAN :
                           frames' = Replaced(frames, t,
                                       IF same
                                       THEN [f EXCEPT !.pc = "notify", !.cur = a]
                                       ELSE next)
                ELSE /\ hazard' = hazard \cup IteratorHazard(f)
                     /\ frames' = Replaced(frames, t,
                                    IF heap[a].notificationName = f.name
                                    THEN [f EXCEPT !.pc = "notify", !.cur = a]
                                    ELSE next)
       \/ /\ f.pc = "notify"
          /\ IF heap[f.cur] = FreedObserver
             THEN /\ hazard' = hazard \cup {"invokedFreed"}
                  /\ frames' = Replaced(frames, t, [next EXCEPT !.count = @ + 1])
             ELSE /\ UNCHANGED hazard
                  /\ frames' = Replaced(frames, t,
                                 IF Notify(f.cur) # <<>>
                                 THEN [f EXCEPT !.pc = "callback"]
                                 ELSE [next EXCEPT !.count = @ + 1])
    /\ Track(t)
    /\ UNCHANGED logVars
    /\ UNCHANGED <<heap, freed, keyObservers, objectObservers, alive, call, trip,
                   capacity, logical>>

\* A loop that, when the callback returns, looks at the same element again.
CallbackReturnsSameElement(t) ==
    /\ Depth(t) > 0
    /\ Top(t).pc = "callback"
    /\ frames' = Replaced(frames, t, [Top(t) EXCEPT !.pc = "scan", !.cur = 0])
    /\ Track(t)
    /\ UNCHANGED logVars
    /\ UNCHANGED <<heap, freed, keyObservers, objectObservers, alive, call, trip,
                   capacity, hazard, logical>>

\* The callback of the observer returns: ++notification_count, next element.
CallbackReturns(t) ==
    /\ Depth(t) > 0
    /\ Top(t).pc = "callback"
    /\ frames' = Replaced(frames, t,
                   [Top(t) EXCEPT !.pc = "scan", !.i = @ + 1, !.cur = 0,
                                  !.count = @ + 1])
    /\ Track(t)
    /\ UNCHANGED logVars
    /\ UNCHANGED <<heap, freed, keyObservers, objectObservers, alive, call, trip,
                   capacity, hazard, logical>>

\* removeObserver(observer) is entered.
CallRemove(t, limit, observer) ==
    /\ CanCall(t, limit)
    /\ frames' = Pushed(frames, t,
                   StartScan([NoFrame EXCEPT
                                !.op = "removeObserver", !.observer = observer,
                                !.target = {a \in logical : heap[a].observer = observer}],
                             "key"))
    /\ Track(t)
    /\ UNCHANGED logVars
    /\ UNCHANGED <<heap, freed, keyObservers, objectObservers, alive, call, trip,
                   capacity, hazard, logical>>

\* One step of removeObserver: an element of a loop is deleted or kept, or the
\* observers kept are assigned to the vector.
StepRemove(t) ==
    /\ Depth(t) > 0
    /\ Top(t).op = "removeObserver"
    /\ LET f == Top(t)
           next == [f EXCEPT !.i = @ + 1] IN
       \/ /\ f.pc = "scan"
          /\ f.i > f.end
          /\ frames' = Replaced(frames, t, [f EXCEPT !.pc = "assign"])
          /\ UNCHANGED <<heap, freed, keyObservers, objectObservers, hazard, logical>>
       \/ /\ f.pc = "scan"
          /\ f.i <= f.end
          /\ \E a \in Elems(f) :
                IF heap[a] = FreedObserver
                THEN /\ \E same \in BOOLEAN :
                           IF same
                           THEN /\ hazard' = hazard \cup IteratorHazard(f)
                                                \cup {"readFreed", "doubleFree"}
                                /\ frames' = Replaced(frames, t, next)
                           ELSE /\ hazard' = hazard \cup IteratorHazard(f)
                                                \cup {"readFreed"}
                                /\ frames' = Replaced(frames, t,
                                               [next EXCEPT !.keep = Append(@, a)])
                     /\ UNCHANGED <<heap, freed>>
                ELSE /\ hazard' = hazard \cup IteratorHazard(f)
                     /\ IF ObserverContainsObserver(heap[a], f.observer)
                        THEN /\ heap' = Delete(heap, {a})
                             /\ freed' = freed \cup {a}
                             /\ frames' = Replaced(frames, t, next)
                        ELSE /\ UNCHANGED <<heap, freed>>
                             /\ frames' = Replaced(frames, t,
                                            [next EXCEPT !.keep = Append(@, a)])
          /\ UNCHANGED <<keyObservers, objectObservers, logical>>
       \/ /\ f.pc = "assign"
          /\ f.v = "key"
          /\ keyObservers' = f.keep
          /\ frames' = Replaced(Invalidated(frames, "key"), t,
                                StartScan([f EXCEPT !.keep = <<>>], "object"))
          /\ UNCHANGED <<heap, freed, objectObservers, hazard, logical>>
       \/ /\ f.pc = "assign"
          /\ f.v = "object"
          /\ objectObservers' = f.keep
          /\ frames' = Invalidated(Popped(frames, t), "object")
          /\ logical' = logical \ f.target
          /\ UNCHANGED <<heap, freed, keyObservers, hazard>>
    /\ Track(t)
    /\ UNCHANGED logVars
    /\ UNCHANGED <<alive, call, trip, capacity>>

\* containsObserver(observer) is entered.
CallContains(t, limit, observer) ==
    /\ CanCall(t, limit)
    /\ frames' = Pushed(frames, t,
                   StartScan([NoFrame EXCEPT !.op = "containsObserver",
                                             !.observer = observer], "key"))
    /\ Track(t)
    /\ UNCHANGED logVars
    /\ UNCHANGED <<heap, freed, keyObservers, objectObservers, alive, call, trip,
                   capacity, hazard, logical>>

\* One step of the loops of containsObserver: return true at the first
\* observer of the owner, false behind the second loop.
StepContains(t) ==
    /\ Depth(t) > 0
    /\ Top(t).op = "containsObserver"
    /\ LET f == Top(t)
           next == [f EXCEPT !.i = @ + 1] IN
       \/ /\ f.pc = "scan"
          /\ f.i > f.end
          /\ frames' = IF f.v = "key"
                       THEN Replaced(frames, t, StartScan(f, "object"))
                       ELSE Popped(frames, t)
          /\ UNCHANGED hazard
       \/ /\ f.pc = "scan"
          /\ f.i <= f.end
          /\ \E a \in Elems(f) :
                IF heap[a] = FreedObserver
                THEN /\ hazard' = hazard \cup IteratorHazard(f) \cup {"readFreed"}
                     /\ \E same \in BOOLEAN :
                           frames' = IF same
                                     THEN Popped(frames, t)
                                     ELSE Replaced(frames, t, next)
                ELSE /\ hazard' = hazard \cup IteratorHazard(f)
                     /\ frames' = IF ObserverContainsObserver(heap[a], f.observer)
                                  THEN Popped(frames, t)
                                  ELSE Replaced(frames, t, next)
    /\ Track(t)
    /\ UNCHANGED logVars
    /\ UNCHANGED <<heap, freed, keyObservers, objectObservers, alive, call, trip,
                   capacity, logical>>

\* postNotificationWithObject(notificationName, object) is entered.
CallPostObject(t, limit, notificationName, object) ==
    /\ CanCall(t, limit)
    /\ frames' = Pushed(frames, t,
                   StartScan([NoFrame EXCEPT !.op = "postNotificationWithObject",
                                             !.name = notificationName,
                                             !.object = object], "object"))
    /\ Track(t)
    /\ UNCHANGED logVars
    /\ UNCHANGED <<heap, freed, keyObservers, objectObservers, alive, call, trip,
                   capacity, hazard, logical>>

\* One step of the loop of postNotificationWithObject; the NotificationError
\* of notify(object) is not caught and ends the call.
StepPostObject(t) ==
    /\ Depth(t) > 0
    /\ Top(t).op = "postNotificationWithObject"
    /\ LET f == Top(t)
           next == [f EXCEPT !.pc = "scan", !.i = @ + 1, !.cur = 0] IN
       \/ /\ f.pc = "scan"
          /\ f.i > f.end
          /\ frames' = Popped(frames, t)
          /\ UNCHANGED hazard
       \/ /\ f.pc = "scan"
          /\ f.i <= f.end
          /\ \E a \in Elems(f) :
                IF heap[a] = FreedObserver
                THEN /\ hazard' = hazard \cup IteratorHazard(f) \cup {"readFreed"}
                     /\ \E same \in BOOLEAN :
                           frames' = Replaced(frames, t,
                                       IF same
                                       THEN [f EXCEPT !.pc = "notify", !.cur = a]
                                       ELSE next)
                ELSE /\ hazard' = hazard \cup IteratorHazard(f)
                     /\ frames' = Replaced(frames, t,
                                    IF heap[a].notificationName = f.name
                                    THEN [f EXCEPT !.pc = "notify", !.cur = a]
                                    ELSE next)
       \/ /\ f.pc = "notify"
          /\ IF heap[f.cur] = FreedObserver
             THEN /\ hazard' = hazard \cup {"invokedFreed"}
                  /\ frames' = Replaced(frames, t, [next EXCEPT !.count = @ + 1])
             ELSE /\ UNCHANGED hazard
                  /\ LET n == NotifyWithObject(f.cur, f.object) IN
                     frames' = IF n.thrown
                               THEN Popped(frames, t)
                               ELSE Replaced(frames, t,
                                      IF n.ran # <<>>
                                      THEN [f EXCEPT !.pc = "callback"]
                                      ELSE [next EXCEPT !.count = @ + 1])
    /\ Track(t)
    /\ UNCHANGED logVars
    /\ UNCHANGED <<heap, freed, keyObservers, objectObservers, alive, call, trip,
                   capacity, logical>>

\* ~NotificationCenter() is entered: no call is made on the object any more.
CallDestructor(t) ==
    /\ CanCall(t, 1)
    /\ alive' = FALSE
    /\ frames' = Pushed(frames, t,
                   [NoFrame EXCEPT !.op = "~NotificationCenter", !.pc = "test"])
    /\ Track(t)
    /\ UNCHANGED logVars
    /\ UNCHANGED <<heap, freed, keyObservers, objectObservers, call, trip,
                   capacity, hazard, logical>>

\* One step of the destructor: the test, a key collected, or the throw; the
\* vectors are gone when it is left.
StepDestructor(t) ==
    /\ Depth(t) > 0
    /\ Top(t).op = "~NotificationCenter"
    /\ LET f == Top(t) IN
       \/ /\ f.pc = "test"
          /\ keyObservers = <<>> /\ objectObservers = <<>>
          /\ frames' = Popped(frames, t)
          /\ UNCHANGED <<keyObservers, objectObservers, hazard>>
       \/ /\ f.pc = "test"
          /\ keyObservers # <<>> \/ objectObservers # <<>>
          /\ frames' = Replaced(frames, t, StartScan(f, "key"))
          /\ UNCHANGED <<keyObservers, objectObservers, hazard>>
       \/ /\ f.pc = "scan"
          /\ f.i > f.end
          /\ frames' = Replaced(frames, t,
                         IF f.v = "key"
                         THEN StartScan(f, "object")
                         ELSE [f EXCEPT !.pc = "throw",
                                        !.count = Len(keyObservers)
                                                  + Len(objectObservers)])
          /\ UNCHANGED <<keyObservers, objectObservers, hazard>>
       \/ /\ f.pc = "scan"
          /\ f.i <= f.end
          /\ \E a \in Elems(f) :
                /\ hazard' = hazard \cup IteratorHazard(f)
                                \cup (IF heap[a] = FreedObserver
                                      THEN {"readFreed"} ELSE {})
                /\ frames' = Replaced(frames, t,
                               [f EXCEPT !.i = @ + 1,
                                         !.keys = Append(@, QuotedKey(a))])
          /\ UNCHANGED <<keyObservers, objectObservers>>
       \/ /\ f.pc = "throw"
          /\ frames' = Popped(frames, t)
          /\ keyObservers' = <<>>
          /\ objectObservers' = <<>>
          /\ UNCHANGED hazard
    /\ Track(t)
    /\ UNCHANGED logVars
    /\ UNCHANGED <<heap, freed, alive, call, trip, capacity, logical>>

\* The code of a call in progress runs, and a callback returns.
Running(t) ==
    \/ StepAdd(t)
    \/ StepPost(t)
    \/ StepPostObject(t)
    \/ StepContains(t)
    \/ StepRemove(t)
    \/ StepDestructor(t)
    \/ CallbackReturns(t)

\* One thread makes the calls one after the other; callbacks call nothing.
NextSteps ==
    \/ \E o \in Owners, n \in Names : CallAdd(1, 1, KeyObserver(o, n))
    \/ \E o \in Owners, n \in Names, p \in BOOLEAN, T \in DeclaredTypes :
          CallAdd(1, 1, ObjectObserver(o, p, T, n))
    \/ \E n \in Names : CallPost(1, 1, n)
    \/ \E n \in Names, T \in PayloadTypes : CallPostObject(1, 1, n, T)
    \/ \E o \in Owners : CallContains(1, 1, o)
    \/ \E o \in Owners : CallRemove(1, 1, o)
    \/ CallDestructor(1)
    \/ StepAdd(1)
    \/ StepPost(1)
    \/ StepPostObject(1)
    \/ StepContains(1)
    \/ StepRemove(1)
    \/ StepDestructor(1)
    \/ CallbackReturns(1)

\* A call is synchronous: the calling thread goes on executing it.
SpecSteps == Init /\ [][NextSteps]_vars /\ WF_vars(Running(1))

\* One thread; a callback may call addObserver, postNotification and
\* removeObserver before it returns.
NextReentrant ==
    \/ \E o \in Owners, n \in Names : CallAdd(1, MaxDepth, KeyObserver(o, n))
    \/ \E n \in Names : CallPost(1, MaxDepth, n)
    \/ \E o \in Owners : CallRemove(1, MaxDepth, o)
    \/ StepAdd(1)
    \/ StepPost(1)
    \/ StepRemove(1)
    \/ CallbackReturns(1)

SpecReentrant == Init /\ [][NextReentrant]_vars

\* Two threads call addObserver, postNotification and removeObserver; nothing
\* orders the steps of one thread's call with those of the other's.  Once a
\* step has undefined behaviour the execution is not followed any further.
NextThreads ==
    \/ \E t \in Threads, o \in Owners, n \in RaceNames :
          hazard = {} /\ CallAdd(t, 1, KeyObserver(o, n))
    \/ \E t \in Threads, n \in RaceNames : hazard = {} /\ CallPost(t, 1, n)
    \/ \E t \in Threads, o \in Owners : hazard = {} /\ CallRemove(t, 1, o)
    \/ \E t \in Threads : hazard = {} /\ StepAdd(t)
    \/ \E t \in Threads : hazard = {} /\ StepPost(t)
    \/ \E t \in Threads : hazard = {} /\ StepRemove(t)
    \/ \E t \in Threads : hazard = {} /\ CallbackReturns(t)

SpecThreads == Init /\ [][NextThreads]_vars

-----------------------------------------------------------------------------
(* The Log.  Each member function holds the mutex of the Log from its first *)
(* statement to its return, so each is one step.                           *)

\* The variables of the NotificationCenter.
registryVars == <<heap, freed, keyObservers, objectObservers, alive, call, trip,
                  scanVars>>

\* Log::setIsLogEnabled(enabled)
setIsLogEnabled(enabled) ==
    /\ isEnabled' = enabled
    /\ logCall' = [NoLogCall EXCEPT !.op = "setIsLogEnabled", !.enabled = enabled]
    /\ UNCHANGED logLevel

\* Log::isLogEnabled()
isLogEnabled ==
    /\ logCall' = [NoLogCall EXCEPT !.op = "isLogEnabled", !.ret = isEnabled]
    /\ UNCHANGED <<isEnabled, logLevel>>

\* Mutant of isLogLevelEnabled: a level has to be below the level of the log.
isLogLevelEnabledBelowOnly(level) ==
    /\ logCall' = [NoLogCall EXCEPT
                     !.op = "isLogLevelEnabled", !.level = level,
                     !.ret = IF ~isEnabled THEN FALSE ELSE level < logLevel]
    /\ UNCHANGED <<isEnabled, logLevel>>

\* Log::isLogLevelEnabled(logLevel)
isLogLevelEnabled(level) ==
    /\ logCall' = [NoLogCall EXCEPT
                     !.op = "isLogLevelEnabled", !.level = level,
                     !.ret = IF ~isEnabled THEN FALSE ELSE level <= logLevel]
    /\ UNCHANGED <<isEnabled, logLevel>>

\* Log::setLogLevel(logLevel)
setLogLevel(level) ==
    /\ logLevel' = level
    /\ logCall' = [NoLogCall EXCEPT !.op = "setLogLevel", !.level = level]
    /\ UNCHANGED isEnabled

\* Log::logLevel()
LogLevelGetter ==
    /\ logCall' = [NoLogCall EXCEPT !.op = "logLevel", !.level = logLevel]
    /\ UNCHANGED <<isEnabled, logLevel>>

\* A Log constructed under any setting of BUMP_LOG_ENABLED and BUMP_LOG_LEVEL.
InitLog ==
    /\ InitRegistry
    /\ \E disabledByEnvironment \in BOOLEAN, levelOfEnvironment \in LogLevels :
          LogConstructed(disabledByEnvironment, levelOfEnvironment)

\* The calls of the Log, in any order, from any thread.
NextLog ==
    \/ \E enabled \in BOOLEAN :
          /\ setIsLogEnabled(enabled)
          /\ logSet' = [logSet EXCEPT !.enabled = enabled, !.enabledSet = TRUE]
          /\ UNCHANGED registryVars
    \/ \E level \in LogLevels :
          /\ setLogLevel(level)
          /\ logSet' = [logSet EXCEPT !.level = level, !.levelSet = TRUE]
          /\ UNCHANGED registryVars
    \/ isLogEnabled /\ UNCHANGED <<logSet, registryVars>>
    \/ \E level \in LogLevels :
          isLogLevelEnabled(level) /\ UNCHANGED <<logSet, registryVars>>
    \/ LogLevelGetter /\ UNCHANGED <<logSet, registryVars>>

SpecLog == InitLog /\ [][NextLog]_vars

-----------------------------------------------------------------------------
(* Vocabulary of the properties.  An observer is registered from its       *)
(* addObserver until the removeObserver of its owner; addresses grow with  *)
(* the order of registration.                                              *)

Range(s) == {s[i] : i \in DOMAIN s}

RECURSIVE Ascending(_)
Ascending(S) ==
    IF S = {}
    THEN <<>>
    ELSE LET m == CHOOSE x \in S : \A y \in S : x <= y IN
         <<m>> \o Ascending(S \ {m})

\* The registered observers of one shape bound to a name, in heap h.
BoundTo(h, shape, name) ==
    {a \in DOMAIN h : h[a].observerType = shape /\ h[a].notificationName = name}

\* The registered observers of an owner, in heap h.
OwnedBy(h, observer) ==
    {a \in DOMAIN h : h[a].observer = observer}

Registered(h) ==
    {a \in DOMAIN h : h[a].observerType \in {"KEY_OBSERVER", "OBJECT_OBSERVER"}}

\* A by-value binding declared for T takes an object of type T, a by-pointer
\* binding an object of type pointer-to-T.
Accepts(b, object) ==
    \/ b.functionPointerWithObject /\ ~b.functionPointerWithPointer /\ object = b.T2
    \/ b.functionPointerWithPointer /\ ~b.functionPointerWithObject
       /\ object.base = b.T2.base /\ object.ptr = b.T2.ptr + 1

NotifiedAddrs == [i \in DOMAIN call.notified |-> call.notified[i].addr]

Occurs(sub, str) ==
    \E i \in 1..(Len(str) - Len(sub) + 1) : SubSeq(str, i, i + Len(sub) - 1) = sub

Returned == call.thrown = "none"

-----------------------------------------------------------------------------
\* C1: postNotification(N) invokes every registered key observer whose name is N
\* exactly once, in the order of registration, and returns how many it invoked.
C1_PostInvokesInRegistrationOrder ==
    call.op = "postNotification" =>
        LET bound == BoundTo(call.preHeap, "KEY_OBSERVER", call.name) IN
        /\ Returned
        /\ NotifiedAddrs = Ascending(bound)
        /\ \A i \in DOMAIN call.notified : call.notified[i].object = NoObject
        /\ call.ret = Cardinality(bound)

\* Two key observers registered for the posted name, both invoked, count 2.
C1_Witness ==
    /\ call.op = "postNotification"
    /\ call.ret = 2
    /\ Len(call.notified) = 2
    /\ call.notified[1].addr < call.notified[2].addr
    /\ Cardinality(Registered(heap)) = 3

\* The object observers bound to the posted name that do not take the posted object.
Mismatched ==
    {a \in BoundTo(call.preHeap, "OBJECT_OBSERVER", call.name) :
        ~Accepts(call.preHeap[a], call.object)}

\* C2: when every object observer bound to N takes the posted object,
\* postNotificationWithObject(N, object) invokes each of them exactly once with
\* that object, in the order of registration, and returns how many it invoked.
C2_PostWithObjectInvokesInOrder ==
    (call.op = "postNotificationWithObject" /\ Mismatched = {}) =>
        LET bound == BoundTo(call.preHeap, "OBJECT_OBSERVER", call.name) IN
        /\ Returned
        /\ NotifiedAddrs = Ascending(bound)
        /\ \A i \in DOMAIN call.notified : call.notified[i].object = call.object
        /\ call.ret = Cardinality(bound)

\* Two object observers of the same name invoked with a pointer object.
C2_Witness ==
    /\ call.op = "postNotificationWithObject"
    /\ Mismatched = {}
    /\ call.ret = 2
    /\ call.object = PointerTo(TypeA)
    /\ Len(call.notified) = 2
    /\ call.notified[1].addr < call.notified[2].addr

\* C3: when postNotificationWithObject(N, object) reaches an observer bound to N
\* that does not take the object, the call throws NotificationError, that
\* observer's callback is not run, every observer bound to N registered before it
\* has been invoked, and none registered after it is.
C3_MismatchAbortsScan ==
    (call.op = "postNotificationWithObject" /\ Mismatched # {}) =>
        LET first == CHOOSE a \in Mismatched : \A b \in Mismatched : a <= b
            bound == BoundTo(call.preHeap, "OBJECT_OBSERVER", call.name) IN
        /\ call.thrown = "NotificationError"
        /\ call.ret = NoRet
        /\ call.errName = call.name
        /\ first \notin Range(NotifiedAddrs)
        /\ NotifiedAddrs = Ascending({a \in bound : a < first})
        /\ \A a \in bound : a > first => a \notin Range(NotifiedAddrs)

\* A match, then the mismatch, then an observer that would have matched.
C3_Witness ==
    /\ call.op = "postNotificationWithObject"
    /\ call.thrown = "NotificationError"
    /\ Len(call.notified) = 1
    /\ \E a \in BoundTo(call.preHeap, "OBJECT_OBSERVER", call.name) :
          /\ a > call.notified[1].addr + 1
          /\ Accepts(call.preHeap[a], call.object)

\* C4: removeObserver(X) removes every observer whose owner is X from both
\* vectors whatever its name, leaves every observer of another owner in its
\* vector, and containsObserver(X) is false right afterwards.
C4_RemoveObserverRemovesAllOfOwner ==
    call.op = "removeObserver" =>
        /\ keyObservers =
             SelectSeq(call.preKey, LAMBDA a : call.preHeap[a].observer # call.observer)
        /\ objectObservers =
             SelectSeq(call.preObject, LAMBDA a : call.preHeap[a].observer # call.observer)
        /\ \A a \in Range(keyObservers) \cup Range(objectObservers) :
              heap[a] = call.preHeap[a]
        /\ OwnedBy(heap, call.observer) = {}
        /\ ~ContainsObserverResult(call.observer)

\* X owned a key observer and an object observer under different names, and an
\* observer of another owner stays.
C4_Witness ==
    /\ call.op = "removeObserver"
    /\ \E a \in Range(call.preKey), b \in Range(call.preObject) :
          /\ call.preHeap[a].observer = call.observer
          /\ call.preHeap[b].observer = call.observer
          /\ call.preHeap[a].notificationName # call.preHeap[b].notificationName
    /\ Len(keyObservers) + Len(objectObservers) = 1

\* C5: the destructor throws NotificationError naming the notifications left
\* whenever an observer remains in either vector, and throws nothing when both
\* vectors are empty.
C5_DestructorReportsLeftObservers ==
    call.op = "~NotificationCenter" =>
        LET left == Range(call.preKey) \cup Range(call.preObject) IN
        /\ (call.thrown = "NotificationError") <=> (left # {})
        /\ (left = {}) => Returned
        /\ (left # {}) =>
              \A a \in left :
                 Occurs("\"" \o call.preHeap[a].notificationName \o "\"", call.key_string)

\* Thrown with a key observer and an object observer of different names left.
C5_Witness ==
    /\ call.op = "~NotificationCenter"
    /\ call.thrown = "NotificationError"
    /\ call.preKey # <<>>
    /\ call.preObject # <<>>
    /\ \E a \in Range(call.preKey), b \in Range(call.preObject) :
          call.preHeap[a].notificationName # call.preHeap[b].notificationName

\* The registered observers with the same owner, name and shape as observer a.
Duplicates(h, a) ==
    {b \in Registered(h) :
        /\ h[b].observer = h[a].observer
        /\ h[b].notificationName = h[a].notificationName
        /\ h[b].observerType = h[a].observerType}

\* C6: addObserver keeps an observer whose owner and name are already registered
\* (both stay in the vector), and a later postNotification of that name invokes
\* both and counts both.
C6_DuplicatesAreKept ==
    /\ call.op = "addObserver" =>
          /\ call.added \in Range(keyObservers) \cup Range(objectObservers)
          /\ Range(call.preKey) \cup Range(call.preObject)
                \subseteq Range(keyObservers) \cup Range(objectObservers)
          /\ Len(keyObservers) + Len(objectObservers)
                = Len(call.preKey) + Len(call.preObject) + 1
    /\ call.op = "postNotification" =>
          \A a \in BoundTo(call.preHeap, "KEY_OBSERVER", call.name) :
             /\ Duplicates(call.preHeap, a) \subseteq Range(NotifiedAddrs)
             /\ call.ret >= Cardinality(Duplicates(call.preHeap, a))

\* A post that invoked two observers of the same owner and name.
C6_Witness ==
    /\ call.op = "postNotification"
    /\ call.ret = 2
    /\ \E a \in Range(NotifiedAddrs) :
          /\ Cardinality(Duplicates(call.preHeap, a)) = 2
          /\ Duplicates(call.preHeap, a) = Range(NotifiedAddrs)

\* The shape a post scans.
ScannedShape ==
    IF call.op = "postNotification" THEN "KEY_OBSERVER" ELSE "OBJECT_OBSERVER"

\* C7: postNotification(N) and postNotificationWithObject(N, p) return 0, run no
\* callback and leave both vectors as they were when no observer of the scanned
\* shape is bound to N.
C7_NoMatchReturnsZero ==
    (/\ call.op \in {"postNotification", "postNotificationWithObject"}
     /\ BoundTo(call.preHeap, ScannedShape, call.name) = {}) =>
        /\ Returned
        /\ call.ret = 0
        /\ call.notified = <<>>
        /\ keyObservers = call.preKey
        /\ objectObservers = call.preObject
        /\ heap = call.preHeap

\* No match although observers of other names, and of the other shape under the
\* posted name, are registered.
C7_Witness ==
    /\ call.op = "postNotificationWithObject"
    /\ call.ret = 0
    /\ BoundTo(heap, "KEY_OBSERVER", call.name) # {}
    /\ objectObservers # <<>>

\* C9: containsObserver(identity) returns true iff some observer in the key
\* vector or in the object vector has that owner.
C9_ContainsObserverIffOwned ==
    call.op = "containsObserver" =>
        (call.found <=>
            \/ \E i \in DOMAIN keyObservers :
                  heap[keyObservers[i]].observer = call.observer
            \/ \E i \in DOMAIN objectObservers :
                  heap[objectObservers[i]].observer = call.observer)

\* Found through the object vector alone, behind an observer of another owner.
C9_Witness ==
    /\ call.op = "containsObserver"
    /\ call.found
    /\ \A i \in DOMAIN keyObservers : heap[keyObservers[i]].observer # call.observer
    /\ Len(objectObservers) = 2
    /\ heap[objectObservers[1]].observer # call.observer

\* C10 as stated: the count a post produces is the number of observers bound to
\* the name, also when an invocation throws.
C10_CountIsMatchesEvenOnThrow ==
    call.op \in {"postNotification", "postNotificationWithObject"} =>
        call.count = Cardinality(BoundTo(call.preHeap, ScannedShape, call.name))

\* C10 amended: a post that returns returns the number of observers bound to the
\* name; a postNotificationWithObject in which an invocation throws returns no
\* count, and notification_count has reached only the number of bound observers
\* registered before the one that threw.
C10_CountIsMatchesUnlessThrown ==
    call.op \in {"postNotification", "postNotificationWithObject"} =>
        LET bound == BoundTo(call.preHeap, ScannedShape, call.name) IN
        /\ Returned =>
              /\ call.ret = Cardinality(bound)
              /\ call.count = call.ret
        /\ ~Returned =>
              /\ call.op = "postNotificationWithObject"
              /\ call.ret = NoRet
              /\ Mismatched # {}
              /\ call.count =
                    Cardinality({a \in bound : \A m \in Mismatched : a < m})
              /\ call.count < Cardinality(bound)

\* A throw after one observer was invoked, with three observers bound to the name.
C10_Witness ==
    /\ call.op = "postNotificationWithObject"
    /\ ~Returned
    /\ call.count = 1
    /\ Cardinality(BoundTo(call.preHeap, "OBJECT_OBSERVER", call.name)) = 3

\* C8: after addObserver of a key observer of an owner for N, postNotification(N)
\* and removeObserver(owner), the postNotification(N) that follows invokes no
\* callback of that owner, and returns 0 provided no other owner has a key
\* observer bound to N.
C8_RoundTripPostReturnsZero ==
    trip.stage = 4 =>
        /\ call.op = "postNotification"
        /\ call.name = trip.name
        /\ \A i \in DOMAIN call.notified :
              call.preHeap[call.notified[i].addr].observer # trip.observer
        /\ (\A a \in BoundTo(call.preHeap, "KEY_OBSERVER", trip.name) :
               call.preHeap[a].observer = trip.observer)
           => (call.ret = 0 /\ call.notified = <<>>)

\* The round trip completed with count 0 while other observers stay registered.
C8_Witness ==
    /\ trip.stage = 4
    /\ call.ret = 0
    /\ Cardinality(Registered(heap)) = 2
    /\ Cardinality(freed) = 1

\* C12: addObserver always succeeds, checks nothing and appends the observer at
\* the end of the vector of its type; in every state the key vector holds key
\* observers only, the object vector object observers only, and every
\* registered observer is in exactly one of the two vectors, once.
C12_AddObserverAppendsToItsVector ==
    /\ call.op = "addObserver" =>
          /\ Returned
          /\ heap[call.added].observerType = "KEY_OBSERVER" =>
                /\ keyObservers = Append(call.preKey, call.added)
                /\ objectObservers = call.preObject
          /\ heap[call.added].observerType = "OBJECT_OBSERVER" =>
                /\ objectObservers = Append(call.preObject, call.added)
                /\ keyObservers = call.preKey
    /\ alive =>
          /\ \A i \in DOMAIN keyObservers :
                heap[keyObservers[i]].observerType = "KEY_OBSERVER"
          /\ \A i \in DOMAIN objectObservers :
                heap[objectObservers[i]].observerType = "OBJECT_OBSERVER"
          /\ \A a \in Registered(heap) :
                Cardinality({i \in DOMAIN keyObservers : keyObservers[i] = a})
                + Cardinality({i \in DOMAIN objectObservers : objectObservers[i] = a})
                = 1

\* An object observer appended behind another one while key observers exist,
\* with the owner and name of the first.
C12_Witness ==
    /\ call.op = "addObserver"
    /\ Len(objectObservers) = 2
    /\ objectObservers[2] = call.added
    /\ Len(keyObservers) = 1
    /\ heap[objectObservers[1]].observer = call.observer
    /\ heap[objectObservers[1]].notificationName = call.name

\* C13: removeObserver(identity) never fails and changes nothing when no
\* observer has that owner; calling it a second time with the same identity
\* leaves the state of the first call.
C13_RemoveObserverNoOpAndIdempotent ==
    call.op = "removeObserver" =>
        /\ Returned
        /\ OwnedBy(call.preHeap, call.observer) = {} =>
              /\ keyObservers = call.preKey
              /\ objectObservers = call.preObject
              /\ heap = call.preHeap
        /\ LET init == [keep |-> <<>>, deleted |-> {}]
               k == RemoveLoop(keyObservers, 1, call.observer, init)
               o == RemoveLoop(objectObservers, 1, call.observer, init) IN
           /\ k.keep = keyObservers
           /\ o.keep = objectObservers
           /\ k.deleted \cup o.deleted = {}

\* A removeObserver of an identity that owns nothing, with observers of
\* another owner in both vectors.
C13_Witness ==
    /\ call.op = "removeObserver"
    /\ OwnedBy(call.preHeap, call.observer) = {}
    /\ keyObservers # <<>>
    /\ objectObservers # <<>>
    /\ freed = {}

\* The object observers the scan of the last postNotificationWithObject reached:
\* those bound to the name, up to the first one that threw.
Reached ==
    {a \in BoundTo(call.preHeap, "OBJECT_OBSERVER", call.name) :
        \A m \in Mismatched : a <= m}

\* C14: notify(object) of an object observer runs the callback exactly once,
\* with the object, when a by-value observer declared for T gets an object of
\* type T or a by-pointer observer one of type pointer-to-T; otherwise the
\* callback does not run and a NotificationError naming the observer's
\* notification leaves notify.
C14_NotifyRecoversDeclaredType ==
    call.op = "postNotificationWithObject" =>
        \A a \in Reached :
            LET b == call.preHeap[a]
                takes == IF b.functionPointerWithObject
                         THEN call.object = b.T2
                         ELSE call.object = [base |-> b.T2.base, ptr |-> b.T2.ptr + 1]
                runs == {i \in DOMAIN call.notified : call.notified[i].addr = a} IN
            /\ takes =>
                  /\ Cardinality(runs) = 1
                  /\ \A i \in runs : call.notified[i].object = call.object
            /\ ~takes =>
                  /\ runs = {}
                  /\ call.thrown = "NotificationError"
                  /\ call.errName = b.notificationName

\* A by-pointer observer took a pointer object and the by-value observer after
\* it, declared for the same type, threw.
C14_Witness ==
    /\ call.op = "postNotificationWithObject"
    /\ call.object = PointerTo(TypeA)
    /\ call.thrown = "NotificationError"
    /\ Len(call.notified) = 1
    /\ call.preHeap[call.notified[1].addr].functionPointerWithPointer
    /\ \E a \in Reached :
          /\ call.preHeap[a].functionPointerWithObject
          /\ call.preHeap[a].T2 = call.preHeap[call.notified[1].addr].T2

\* C15: postNotification(N) never invokes an object observer and
\* postNotificationWithObject(N, p) never a key observer, also with observers of
\* both types bound to N, and each count leaves out the observers of the other type.
C15_ShapesAreDispatchedSeparately ==
    call.op \in {"postNotification", "postNotificationWithObject"} =>
        /\ \A i \in DOMAIN call.notified :
              call.preHeap[call.notified[i].addr].observerType = ScannedShape
        /\ call.count <= Cardinality(BoundTo(call.preHeap, ScannedShape, call.name))
        /\ call.count = Len(call.notified)

\* A postNotification that counted one observer while two object observers are
\* bound to the same name.
C15_Witness ==
    /\ call.op = "postNotification"
    /\ call.ret = 1
    /\ Cardinality(BoundTo(call.preHeap, "OBJECT_OBSERVER", call.name)) = 2

\* C16: removeObserver keeps the order of the observers it keeps: both vectors
\* hold their observers in the order of registration at all times, and the
\* posts invoke the observers left in that order.
C16_RemoveObserverKeepsOrder ==
    /\ alive =>
          /\ \A i, j \in DOMAIN keyObservers :
                i < j => keyObservers[i] < keyObservers[j]
          /\ \A i, j \in DOMAIN objectObservers :
                i < j => objectObservers[i] < objectObservers[j]
    /\ call.op = "removeObserver" =>
          /\ \A i, j \in DOMAIN call.preKey :
                (i < j /\ {call.preKey[i], call.preKey[j]} \subseteq Range(keyObservers))
                => \E k, l \in DOMAIN keyObservers :
                      k < l /\ keyObservers[k] = call.preKey[i]
                            /\ keyObservers[l] = call.preKey[j]
          /\ \A i, j \in DOMAIN call.preObject :
                (i < j /\ {call.preObject[i], call.preObject[j]}
                             \subseteq Range(objectObservers))
                => \E k, l \in DOMAIN objectObservers :
                      k < l /\ objectObservers[k] = call.preObject[i]
                            /\ objectObservers[l] = call.preObject[j]
    /\ call.op \in {"postNotification", "postNotificationWithObject"} =>
          \A i, j \in DOMAIN call.notified :
             i < j => call.notified[i].addr < call.notified[j].addr

\* A post that invoked the first and the third observer registered, after the
\* second one was removed.
C16_Witness ==
    /\ call.op = "postNotification"
    /\ Len(call.notified) = 2
    /\ call.notified[1].addr = 1
    /\ call.notified[2].addr = 3
    /\ freed = {2}

\* C17 as stated: every observer removed by removeObserver is deleted, no
\* deleted observer stays in a vector or is invoked by a post, and every
\* observer still registered when the destructor runs is deleted by it.
C17_RegistryDestroysWhatItOwns ==
    /\ call.op = "removeObserver" =>
          /\ OwnedBy(call.preHeap, call.observer) \subseteq freed
          /\ \A a \in OwnedBy(call.preHeap, call.observer) : heap[a] = FreedObserver
    /\ \A a \in freed : a \notin Range(keyObservers) \cup Range(objectObservers)
    /\ call.op \in {"postNotification", "postNotificationWithObject"} =>
          \A i \in DOMAIN call.notified : call.notified[i].addr \notin freed
    /\ call.op = "~NotificationCenter" =>
          Range(call.preKey) \cup Range(call.preObject) \subseteq freed

\* The text of the keys of a sequence of observers, from the left: each name in
\* quotes, a comma and a blank between two of them.
RECURSIVE KeysText(_, _, _)
KeysText(h, addrs, n) ==
    IF n = 0
    THEN ""
    ELSE KeysText(h, addrs, n - 1)
         \o (IF n > 1 THEN ", " ELSE "")
         \o "\"" \o h[addrs[n]].notificationName \o "\""

\* C18: the NotificationError of the destructor carries the number of observers
\* left in the two vectors together and the name of each of them, the key
\* observers first, then the object observers, each in order of registration.
C18_DestructorMessage ==
    (call.op = "~NotificationCenter" /\ call.thrown = "NotificationError") =>
        LET left == Ascending(Range(call.preKey)) \o Ascending(Range(call.preObject)) IN
        /\ call.total = Cardinality(Range(call.preKey) \cup Range(call.preObject))
        /\ call.total > 0
        /\ call.key_string = KeysText(call.preHeap, left, Len(left))

\* Thrown with two key observers of different names and an object observer
\* registered between them.
C18_Witness ==
    /\ call.op = "~NotificationCenter"
    /\ call.total = 3
    /\ call.preKey = <<1, 3>>
    /\ call.preObject = <<2>>
    /\ call.preHeap[1].notificationName # call.preHeap[3].notificationName

\* The observers held by the two vectors.
Held == Range(keyObservers) \cup Range(objectObservers)

\* C11: when a callback run by postNotification itself calls addObserver,
\* removeObserver or postNotification, the dispatch in progress never invokes
\* an observer that has been removed and deleted, and once every call has
\* returned the two vectors hold exactly the observers that the completed
\* addObserver and removeObserver calls leave.
C11_ReentrantDispatchIsSafe ==
    /\ "invokedFreed" \notin hazard
    /\ frames[1] = <<>> => Held = logical

\* No call is in progress.
Quiet == \A t \in Threads : frames[t] = <<>>

\* C19: no lock orders the calls of two threads, so what holds of calls made
\* one after the other fails only, and does fail, when calls of two threads
\* overlap: until then no deleted observer is read or invoked and, between
\* calls, the vectors hold exactly the observers added and not removed.
C19_OnlyOverlappingCallsBreakGuarantees ==
    ~raced => /\ hazard = {}
              /\ Quiet => Held = logical

\* Calls of two threads have overlapped: a postNotification has invoked an
\* observer that a removeObserver of the other thread had deleted, and an
\* observer whose addObserver returned and that nobody deleted is in neither
\* vector.
C19_Witness ==
    /\ raced
    /\ "invokedFreed" \in hazard
    /\ \E a \in logical : a \notin Held /\ a \notin freed

\* C20: every call of addObserver, removeObserver, containsObserver,
\* postNotification, postNotificationWithObject and the destructor returns or
\* throws, given that every callback returns: a loop goes from an element to
\* the next and never beyond the end taken when it started, so it looks at
\* each stored observer at most once.
C20_EveryCallReturns ==
    /\ [](\A k \in 1..Depth(1) :
             /\ frames[1][k].i <= frames[1][k].end + 1
             /\ frames[1][k].pc \in {"scan", "notify", "callback"} =>
                   frames[1][k].end = Len(Vec(frames[1][k].v)))
    /\ [][(Depth(1) > 0 /\ Depth(1) = Len(frames'[1])
             /\ Top(1).op = frames'[1][Depth(1)].op
             /\ Top(1).v = frames'[1][Depth(1)].v) =>
          /\ frames'[1][Depth(1)].i \in {Top(1).i, Top(1).i + 1}
          /\ (Top(1).pc = "scan" /\ frames'[1][Depth(1)].pc = "scan") =>
                frames'[1][Depth(1)].i = Top(1).i + 1]_vars
    /\ (frames[1] # <<>>) ~> (frames[1] = <<>>)

\* postNotificationWithObject has looked at two object observers, has
\* invoked both and is about to return 2.
C20_Witness ==
    /\ Depth(1) = 1
    /\ Top(1).op = "postNotificationWithObject"
    /\ Top(1).pc = "scan"
    /\ Top(1).end = 2
    /\ Top(1).i > Top(1).end
    /\ Top(1).count = 2

\* The calls that only read the two vectors.
ReadOnlyCalls == {"postNotification", "postNotificationWithObject", "containsObserver"}

\* The objects that every object observer bound to name takes.
TakenByAll(name) ==
    {T \in PayloadTypes :
        \A a \in BoundTo(heap, "OBJECT_OBSERVER", name) \cap Range(objectObservers) :
            Accepts(heap[a], T)}

\* C21: postNotification, postNotificationWithObject (also when it throws
\* NotificationError) and containsObserver leave both vectors and every
\* observer as they were, so that a postNotificationWithObject of the same
\* name that follows, with an object every bound observer takes, invokes each
\* of the observers that were bound to the name before the call.
C21_ReadOnlyCallsLeaveRegistry ==
    call.op \in ReadOnlyCalls =>
        /\ keyObservers = call.preKey
        /\ objectObservers = call.preObject
        /\ heap = call.preHeap
        /\ alive
        /\ \A T \in TakenByAll(call.name) :
              LET r == PostObjectLoop(objectObservers, 1, call.name, T,
                                      [count |-> 0, notified |-> <<>>,
                                       thrown |-> FALSE, errName |-> ""]) IN
              /\ ~r.thrown
              /\ [i \in DOMAIN r.notified |-> r.notified[i].addr]
                    = Ascending(Range(call.preObject)
                                \cap BoundTo(call.preHeap, "OBJECT_OBSERVER", call.name))

\* postNotificationWithObject has thrown NotificationError with two object
\* observers bound to the name, and there is an object both of them take.
C21_Witness ==
    /\ call.op = "postNotificationWithObject"
    /\ call.thrown = "NotificationError"
    /\ Cardinality(BoundTo(heap, "OBJECT_OBSERVER", call.name)
                   \cap Range(objectObservers)) = 2
    /\ TakenByAll(call.name) # {}

\* C22: every object observer has exactly one of _functionPointerWithObject
\* and _functionPointerWithPointer set, from its construction on, and no call
\* of the NotificationCenter changes the callback set, the observer type, the
\* notification name or the owner of an observer: an observer stays as it was
\* constructed until it is deleted.
C22_ObserversAreImmutable ==
    /\ [](\A a \in DOMAIN heap :
             heap[a].observerType = "OBJECT_OBSERVER" =>
                heap[a].functionPointerWithObject # heap[a].functionPointerWithPointer)
    /\ [][\A a \in DOMAIN heap :
             /\ a \in DOMAIN heap'
             /\ heap'[a] \in {heap[a], FreedObserver}]_vars

\* A removeObserver has deleted an observer and left, in the vector, an object
\* observer constructed by pointer and one constructed by value.
C22_Witness ==
    /\ call.op = "removeObserver"
    /\ freed # {}
    /\ \E a, b \in Range(objectObservers) :
          /\ heap[a].functionPointerWithPointer
          /\ heap[b].functionPointerWithObject

\* C23: isLogLevelEnabled(level) returns false when the log is disabled, and
\* otherwise true exactly when level is at or below the level of the log,
\* where disabled and the level of the log are what the latest
\* setIsLogEnabled and setLogLevel gave (what the Log was constructed with,
\* before the first of them).
C23_IsLogLevelEnabledFollowsSetters ==
    logCall.op = "isLogLevelEnabled" =>
        /\ ~logSet.enabled => ~logCall.ret
        /\ logSet.enabled => (logCall.ret <=> logCall.level <= logSet.level)

\* After a setLogLevel to another level than the one of construction and a
\* setIsLogEnabled(true), isLogLevelEnabled has returned true for the level
\* of the log itself.
C23_Witness ==
    /\ logCall.op = "isLogLevelEnabled"
    /\ logSet.enabledSet /\ logSet.levelSet
    /\ logSet.enabled
    /\ logSet.level # WARNING_LVL
    /\ logCall.level = logSet.level
    /\ logCall.ret
====
